---- MODULE Spec2Model ----
(***************************************************************************)
(* ai-chess-engine: the evaluator (simple-eval), the move requester        *)
(* (getAiMove), the HTTP endpoint (POST /api/chess-move and                *)
(* /api/chess-move-2) with its prompt builder (getChessPrompt), and the    *)
(* game hook of the page (useChessGame).                                   *)
(*                                                                         *)
(* The rules engine (chess.js) and the language model (OpenAI) are         *)
(* external.  A position is what the rules engine reports about it: the    *)
(* board, the side to move, whether that side is in check, the legal-move  *)
(* list, the half-move clock and the number of times the position has      *)
(* occurred in the game.  The derived predicates (isCheckmate, isDraw,     *)
(* isGameOver, ...) are computed from these as chess.js computes them.     *)
(***************************************************************************)
EXTENDS Integers, Sequences, FiniteSets, TLC

\* ------------------------------------------------------------------ bounds

\* Longest legal-move list of a modelled position.
MaxMoves == 2

\* ------------------------------------------------------------------ boards

W(t) == [type |-> t, color |-> "w"]
B(t) == [type |-> t, color |-> "b"]
\* An empty square: game.board() holds null there.
E == [type |-> "-", color |-> "-"]

EmptyRow == <<E, E, E, E, E, E, E, E>>

\* game.board(): rows 8 down to 1, files a to h.
\* rnbqkbnr/pppppppp/8/8/8/8/PPPPPPPP/RNBQKBNR
BoardStart ==
  << <<B("r"), B("n"), B("b"), B("q"), B("k"), B("b"), B("n"), B("r")>>,
     <<B("p"), B("p"), B("p"), B("p"), B("p"), B("p"), B("p"), B("p")>>,
     EmptyRow, EmptyRow, EmptyRow, EmptyRow,
     <<W("p"), W("p"), W("p"), W("p"), W("p"), W("p"), W("p"), W("p")>>,
     <<W("r"), W("n"), W("b"), W("q"), W("k"), W("b"), W("n"), W("r")>> >>

\* 7k/8/5K2/6Q1/8/8/8/8
BoardKQvK ==
  << <<E, E, E, E, E, E, E, B("k")>>,
     EmptyRow,
     <<E, E, E, E, E, W("k"), E, E>>,
     <<E, E, E, E, E, E, W("q"), E>>,
     EmptyRow, EmptyRow, EmptyRow, EmptyRow >>

\* 8/8/8/8/8/2k5/1r6/K7
BoardKvKR ==
  << EmptyRow, EmptyRow, EmptyRow, EmptyRow, EmptyRow,
     <<E, E, B("k"), E, E, E, E, E>>,
     <<E, B("r"), E, E, E, E, E, E>>,
     <<W("k"), E, E, E, E, E, E, E>> >>

\* 7k/8/8/8/8/QQ1Q4/Q1QQQQQ1/RNB1KBR1: nine queens (eight promoted), two
\* rooks, two bishops and one knight against a bare king.
BoardNineQueens ==
  << <<E, E, E, E, E, E, E, B("k")>>,
     EmptyRow, EmptyRow, EmptyRow, EmptyRow,
     <<W("q"), W("q"), E, W("q"), E, E, E, E>>,
     <<W("q"), E, W("q"), W("q"), W("q"), W("q"), W("q"), E>>,
     <<W("r"), W("n"), W("b"), E, W("k"), W("b"), W("r"), E>> >>

\* 8/8/8/3k4/8/8/8/4K3
BoardKvK ==
  << EmptyRow, EmptyRow, EmptyRow,
     <<E, E, E, B("k"), E, E, E, E>>,
     EmptyRow, EmptyRow, EmptyRow,
     <<E, E, E, E, W("k"), E, E, E>> >>

\* 2b1k3/8/8/8/8/8/8/4KB2: both bishops on light squares.
BoardKBvKBSame ==
  << <<E, E, B("b"), E, B("k"), E, E, E>>,
     EmptyRow, EmptyRow, EmptyRow, EmptyRow, EmptyRow, EmptyRow,
     <<E, E, E, E, W("k"), W("b"), E, E>> >>

\* The boards of the model.  The code reads a board for its material and the
\* rules engine for its insufficient-material test; what else the engine
\* reports of a position (check, legal moves, clock, repetitions) is held
\* beside the board, so a board stands for the positions with its material.
BoardNames == {"start", "KQvK", "KvKR", "nineQueens", "KvK", "KBvKB"}

BoardOf(name) ==
  CASE name = "start"      -> BoardStart
    [] name = "KQvK"       -> BoardKQvK
    [] name = "KvKR"       -> BoardKvKR
    [] name = "nineQueens" -> BoardNineQueens
    [] name = "KvK"        -> BoardKvK
    [] name = "KBvKB"      -> BoardKBvKBSame

\* The squares of a board, row by row.
Squares == (1..8) \X (1..8)

\* ------------------------------------------------------------- the rules engine

\* chess.js: the half-move clock from which isDraw() reports the fifty-move rule.
FiftyMoveClock == 100
\* chess.js: the number of occurrences from which isThreefoldRepetition() is true.
RepetitionLimit == 3

\* A legal move as the engine lists it: whether it gives check, and mate.
MoveKinds == {[check |-> FALSE, mate |-> FALSE],
              [check |-> TRUE,  mate |-> FALSE],
              [check |-> TRUE,  mate |-> TRUE]}

MoveLists == UNION {[1..n -> MoveKinds] : n \in 0..MaxMoves}

Other(c) == IF c = "w" THEN "b" ELSE "w"

\* game.turn()
turn(p) == p.turn

\* game.isCheck()
isCheck(p) == p.check

\* game.isCheckmate(): in check with no legal move.
isCheckmate(p) == p.check /\ Len(p.moves) = 0

\* game.isStalemate(): not in check with no legal move.
isStalemate(p) == ~p.check /\ Len(p.moves) = 0

\* The insufficient-material test on a board: two pieces; three with one
\* bishop or one knight; kings and bishops only, every bishop on the same
\* square colour.
insufficientMaterial(board) ==
  LET pieces(type) == {s \in Squares : board[s[1]][s[2]].type = type}
      numPieces    == Cardinality({s \in Squares : board[s[1]][s[2]].type # "-"})
      bishops      == Cardinality(pieces("b"))
      knights      == Cardinality(pieces("n"))
      onColour(k)  == {s \in pieces("b") : (s[1] + s[2]) % 2 = k}
  IN  \/ numPieces = 2
      \/ numPieces = 3 /\ (bishops = 1 \/ knights = 1)
      \/ numPieces = bishops + 2 /\ (onColour(0) = {} \/ onColour(1) = {})

\* The boards of the model on which the test is true.
InsufficientBoards == {name \in BoardNames : insufficientMaterial(BoardOf(name))}

\* game.isInsufficientMaterial()
isInsufficientMaterial(p) == p.board \in InsufficientBoards

\* game.isThreefoldRepetition()
isThreefoldRepetition(p) == p.reps >= RepetitionLimit

\* game.isDraw(): fifty-move rule, stalemate, insufficient material, repetition.
isDraw(p) ==
  \/ p.halfMoves >= FiftyMoveClock
  \/ isStalemate(p)
  \/ isInsufficientMaterial(p)
  \/ isThreefoldRepetition(p)

\* game.isGameOver()
isGameOver(p) == isCheckmate(p) \/ isStalemate(p) \/ isDraw(p)

\* Half-move clocks of the modelled positions: fresh, one short of the
\* fifty-move rule, and at it.
HalfMoveValues == {0, FiftyMoveClock - 1, FiftyMoveClock}

\* The positions of the model.  A mating move gives check; a position that
\* has occurred before has a legal move (the game went on from it) and a
\* clock that counted the moves in between; no insufficient-material board
\* is checkmate.
Positions ==
  {p \in [board : BoardNames, turn : {"w", "b"}, check : BOOLEAN,
          moves : MoveLists, halfMoves : HalfMoveValues,
          reps : 1..RepetitionLimit] :
     /\ p.reps > 1 => Len(p.moves) > 0 /\ p.halfMoves >= 4 * (p.reps - 1)
     /\ isInsufficientMaterial(p) => ~isCheckmate(p)}

\* game.fen() followed by new Chess(fen): the position without the game's
\* history, so it has occurred once.
FromFen(p) == [p EXCEPT !.reps = 1]

\* ------------------------------------------------------------- move strings

\* A JavaScript value standing where a move string is expected: undefined,
\* null, or a string.  A string is empty, or names no move at all
\* ("garbage"), or spells the move with index base of the legal-move list
\* (an index past the list is a move that is not legal here): in standard
\* algebraic notation ("san") or as from-square/to-square ("lan", "e2e4"),
\* with a suffix ("", "+", "#") and possibly with surrounding white space.
Decorations == {"", "+", "#"}

Value(kind) == [kind |-> kind, base |-> 0, deco |-> "", form |-> "san", pad |-> FALSE]

Undefined == Value("undefined")

Strings ==
  {t \in [kind : {"empty", "garbage", "move"}, base : 0..MaxMoves,
          deco : Decorations, form : {"san", "lan"}, pad : BOOLEAN] :
     /\ t.kind = "move" <=> t.base > 0
     /\ t.kind # "move" => t.deco = "" /\ t.form = "san"
     /\ t.kind = "garbage" => ~t.pad}

Values == Strings \cup {Undefined, Value("null")}

\* String.prototype.trim()
trim(t) == [t EXCEPT !.pad = FALSE]

\* !value
Falsy(t) == t.kind \in {"undefined", "null"} \/ (t.kind = "empty" /\ ~t.pad)

\* The SAN string of the i-th legal move: "+" when it gives check, "#" when
\* it mates.
san(p, i) ==
  [kind |-> "move", base |-> i,
   deco |-> IF p.moves[i].mate THEN "#" ELSE IF p.moves[i].check THEN "+" ELSE "",
   form |-> "san", pad |-> FALSE]

\* game.moves(): the legal-move list as SAN strings.
moves(p) == [i \in 1..Len(p.moves) |-> san(p, i)]

\* chess.js strippedSan: the string without its trailing decoration.
strippedSan(t) == [t EXCEPT !.deco = ""]

\* chess.js move parser (strict: false): the index of the legal move the
\* value denotes, 0 when it denotes none.  First the stripped string is
\* compared with the stripped SAN of every legal move; then the
\* from-square/to-square spelling is matched against the legal moves.
moveFromSan(p, t) ==
  LET clean      == strippedSan(t)
      strict     == {i \in 1..Len(p.moves) : clean = strippedSan(san(p, i))}
      permissive == {i \in 1..Len(p.moves) :
                       /\ clean.kind = "move" /\ ~clean.pad
                       /\ clean.form = "lan" /\ clean.base = i}
  IN  IF t.kind \in {"undefined", "null"} THEN 0
      ELSE IF strict # {} THEN CHOOSE i \in strict : TRUE
      ELSE IF permissive # {} THEN CHOOSE i \in permissive : TRUE
      ELSE 0

\* new Chess(fen).move(value) throws.
moveThrows(p, t) == moveFromSan(FromFen(p), t) = 0

\* ------------------------------------------------------------- simple-eval

PIECE_VALUES(type) ==
  CASE type = "p" -> 1
    [] type = "n" -> 3
    [] type = "b" -> 3
    [] type = "r" -> 5
    [] type = "q" -> 9
    [] type = "k" -> 0
    [] OTHER      -> 0

\* The inner loop of the material sum: the squares of one row.
RECURSIVE SumRow(_, _)
SumRow(row, n) ==
  IF n = 0 THEN 0
  ELSE LET square == row[n]
           value  == IF square.type = "-" THEN 0 ELSE PIECE_VALUES(square.type)
       IN  SumRow(row, n - 1) + (IF square.color = "w" THEN value ELSE 0 - value)

\* The material loop: the sum over the first n rows of a board.
RECURSIVE SumSquares(_, _)
SumSquares(board, n) ==
  IF n = 0 THEN 0
  ELSE SumSquares(board, n - 1) + SumRow(board[n], 8)

\* materialScore.toFixed(1): the integer part and the first decimal.
toFixed1(n) == <<n, 0>>
\* parseFloat of such a string.
parseFloat(d) == d[1]

CheckmateScore == 100

\* The material score counting White's pieces only.
materialScoreWhiteOnly(board) ==
  LET white == [r \in 1..8 |-> [f \in 1..8 |->
                  IF board[r][f].color = "w" THEN board[r][f] ELSE E]]
  IN  parseFloat(toFixed1(SumSquares(white, 8)))

\* The material score of a board: the loop over game.board() and the
\* rounding to one decimal.
materialScore(board) == parseFloat(toFixed1(SumSquares(board, 8)))

\* evaluateBoard without its draw test.
evaluateBoardNoDraw(p) ==
  IF isCheckmate(p)
    THEN (IF turn(p) = "w" THEN 0 - CheckmateScore ELSE CheckmateScore)
  ELSE materialScore(BoardOf(p.board))

evaluateBoard(p) ==
  IF isCheckmate(p)
    THEN (IF turn(p) = "w" THEN 0 - CheckmateScore ELSE CheckmateScore)
  ELSE IF isDraw(p) \/ isThreefoldRepetition(p) \/ isInsufficientMaterial(p)
    THEN 0
  ELSE materialScore(BoardOf(p.board))

\* ------------------------------------------------------------------ state

VARIABLES
  evGame,      \* simple-eval: the game handed to evaluateBoard
  evDone,      \* simple-eval: evaluateBoard has returned
  evScore,     \* simple-eval: the returned score
  route,       \* endpoint: "chess-move" or "chess-move-2"
  nodeEnv,     \* endpoint: process.env.NODE_ENV
  body,        \* endpoint: the request body
  stage,       \* endpoint: where POST stands
  game,        \* endpoint: the game createChessGame returned
  model,       \* endpoint: the model selectModel chose
  apiError,    \* endpoint: what the upstream call threw
  completion,  \* endpoint: the upstream reply
  modelCalls,  \* endpoint: calls of openai.chat.completions.create
  resp,        \* endpoint: the response POST returned
  aiGame,      \* getAiMove: the game it was called with
  aiPc,        \* getAiMove: where it stands
  aiFetch,     \* getAiMove: how the fetch settled
  aiResult,    \* getAiMove: the value its promise resolved to
  hkGame,      \* useChessGame: the position of the board holder (game)
  hkUndo,      \* useChessGame: the plies the board holder can undo
  hkUi,        \* useChessGame: the React state of the hook
  hkMounted,   \* useChessGame: isMounted.current
  hkLive,      \* useChessGame: the component is rendered
  hkPending,   \* useChessGame: the outstanding getAiMove requests
  hkLast,      \* useChessGame: the last operation and what it did
  prIn,        \* prompt: the route and the position of the FEN
  prPc,        \* prompt: where POST stands between its game-status tests and the upstream call
  prOut        \* prompt: the model chosen and what the prompt says

evVars == <<evGame, evDone, evScore>>
epVars == <<route, nodeEnv, body, stage, game, model, apiError, completion,
            modelCalls, resp>>
aiVars == <<aiGame, aiPc, aiFetch, aiResult>>
hkVars == <<hkGame, hkUndo, hkUi, hkMounted, hkLive, hkPending, hkLast>>
vars   == <<evGame, evDone, evScore, route, nodeEnv, body, stage, game, model,
            apiError, completion, modelCalls, resp, aiGame, aiPc, aiFetch, aiResult,
            hkGame, hkUndo, hkUi, hkMounted, hkLive, hkPending, hkLast,
            prIn, prPc, prOut>>
prVars == <<prIn, prPc, prOut>>

\* No game: the value of a game variable that holds none.
NoGame == [board |-> "start", turn |-> "w", check |-> FALSE, moves |-> <<>>,
           halfMoves |-> 0, reps |-> 0]

\* ------------------------------------------------------------- endpoint: data

\* Error messages.
MsgAlreadyOver == "Game is already over"
MsgInvalidFen  == "Invalid FEN: must contain six space-delimited fields"
MsgNullBody    == "Cannot destructure property 'fen' of 'requestBody' as it is null."
MsgFenSplit    == "fen.split is not a function"
MsgNoMove      == "No move returned from AI"
MsgNoChoices   == "Cannot read properties of undefined (reading '0')"
MsgGeneric     == "Failed to get AI move"
MsgQuota       == "You exceeded your current quota, please check your plan and billing details."
MsgRateLimit   == "Rate limit reached for requests"
MsgServer      == "The server had an error while processing your request"
MsgConnection  == "Connection error."
MsgBudget      == "Request rejected: the organization is already over its monthly budget"

\* message.toLowerCase().includes(needle), message.includes(needle)
includes(message, needle) ==
  \/ needle = "already over" /\ message \in {MsgAlreadyOver, MsgBudget}
  \/ needle = "invalid fen"  /\ message = MsgInvalidFen

\* A thrown value: whether it is an Error, its message, and the code and
\* status the upstream client puts on its errors (0: no status).
Thrown(isError, message, code, status) ==
  [isError |-> isError, message |-> message, code |-> code, status |-> status]

Err(message) == Thrown(TRUE, message, "", 0)

NoError == Thrown(FALSE, "", "", 0)

\* What openai.chat.completions.create can throw.
UpstreamErrors ==
  { Thrown(TRUE,  MsgQuota,      "insufficient_quota",  429),
    Thrown(TRUE,  MsgQuota,      "insufficient_quota",  0),
    Thrown(TRUE,  MsgRateLimit,  "rate_limit_exceeded", 429),
    Thrown(TRUE,  MsgServer,     "server_error",        500),
    Thrown(TRUE,  MsgConnection, "",                    0),
    Thrown(TRUE,  MsgBudget,     "billing_hard_limit",  400),
    Thrown(FALSE, MsgServer,     "server_error",        503) }

\* What it can resolve to: a completion without choices (malformed), or one
\* whose choices[0]?.message?.content is undefined, null or a string.
Completions ==
  {[choices |-> FALSE, content |-> Undefined]} \cup
  {[choices |-> TRUE, content |-> v] : v \in Values}

NoCompletion == [choices |-> FALSE, content |-> Value("none")]

\* Request bodies: not JSON; the JSON values null and 42; an object without
\* fen; an object whose fen is "", 123, a string that is no FEN, or the FEN
\* of a position.
BodyKinds == {"not-json", "null", "primitive", "no-fen", "fen-empty",
              "fen-number", "fen-invalid", "fen"}

\* The boards of the FENs sent to the endpoint.
FenBoards == {"KQvK", "KvK"}

\* A position read from a FEN has occurred once.
FenPositions == {p \in Positions : p.reps = 1 /\ p.board \in FenBoards}

Bodies ==
  {[kind |-> k, fen |-> NoGame] : k \in BodyKinds \ {"fen"}} \cup
  {[kind |-> "fen", fen |-> p] : p \in FenPositions}

NoBody == [kind |-> "none", fen |-> NoGame]

\* A response: its HTTP status and the fields of its JSON body (has: the
\* fields that are present).
Response(status, has, f) ==
  [status |-> status, has |-> has,
   move      |-> IF "move" \in has THEN f.move ELSE Undefined,
   turn      |-> IF "turn" \in has THEN f.turn ELSE "",
   inCheck   |-> IF "inCheck" \in has THEN f.inCheck ELSE FALSE,
   gameOver  |-> IF "gameOver" \in has THEN f.gameOver ELSE FALSE,
   error     |-> IF "error" \in has THEN f.error ELSE "",
   winner    |-> IF "winner" \in has THEN f.winner ELSE "",
   reason    |-> IF "reason" \in has THEN f.reason ELSE ""]

NoFields == [move |-> Undefined, turn |-> "", inCheck |-> FALSE, gameOver |-> FALSE,
             error |-> "", winner |-> "", reason |-> ""]

NoResponse == Response(0, {}, NoFields)

\* ------------------------------------------------------------- endpoint: code

MsgInvalidJson == "Invalid JSON in request body"
MsgFenRequired == "FEN string is required"
MsgInvalidMove == "Invalid move"

\* selectModel choosing gpt-4 whatever the position.
selectModelAlwaysGpt4(r, moveCount) == "gpt-4"

\* selectModel: by the number of legal moves in chess-move, fixed in
\* chess-move-2.
selectModel(r, moveCount) ==
  IF r = "chess-move"
    THEN (IF moveCount > 30 THEN "gpt-4" ELSE "gpt-3.5-turbo")
    ELSE "gpt-4"

\* createChessGame without its game-over test.
createChessGameNoOverCheck(b) ==
  CASE b.kind = "fen-number"  -> Err(MsgFenSplit)
    [] b.kind = "fen-invalid" -> Err(MsgInvalidFen)
    [] OTHER -> NoError

\* createChessGame(fen): what it throws (NoError: it returns the game).  new
\* Chess(fen) throws a TypeError on a fen that is no string and an "Invalid
\* FEN" Error on a string that is no FEN.
createChessGame(b) ==
  CASE b.kind = "fen-number"  -> Err(MsgFenSplit)
    [] b.kind = "fen-invalid" -> Err(MsgInvalidFen)
    [] OTHER -> IF isGameOver(b.fen) \/ isDraw(b.fen)
                  THEN Err(MsgAlreadyOver)
                  ELSE NoError

\* The random replacement: legalMoves[Math.floor(Math.random() * length)],
\* undefined when the list is empty.
randomMoves(legalMoves) ==
  IF Len(legalMoves) = 0 THEN {Undefined}
  ELSE {legalMoves[i] : i \in 1..Len(legalMoves)}

\* validateMove(fen, move, legalMoves): the values it can return.
validateMove(fen, move, legalMoves) ==
  IF ~moveThrows(fen, move) THEN {move} ELSE randomMoves(legalMoves)

\* The quota test without the status 429.
isQuotaErrorCodeOnly(e) == e.code = "insufficient_quota"

\* apiError.code === 'insufficient_quota' || apiError.status === 429
isQuotaError(e) ==
  e.code = "insufficient_quota" \/ e.status = 429

\* The outer catch of POST: the response for a thrown value.
errorResponse(error, env) ==
  LET errorMessage == IF error.isError THEN error.message ELSE MsgGeneric
      statusCode   == IF \/ includes(errorMessage, "already over")
                         \/ includes(errorMessage, "invalid fen")
                        THEN 400 ELSE 500
      gameOver     == \/ includes(errorMessage, "Game over")
                      \/ includes(errorMessage, "Checkmate")
                      \/ includes(errorMessage, "drawn")
      stack        == IF env = "development" /\ error.isError THEN {"stack"} ELSE {}
  IN  Response(statusCode, {"error", "gameOver"} \cup stack,
               [NoFields EXCEPT !.error = errorMessage, !.gameOver = gameOver])

\* The quota fallback response (JSON leaves out a field that is undefined).
quotaResponse(randomMove) ==
  Response(200,
           (IF randomMove = Undefined THEN {} ELSE {"move"}) \cup {"warning", "originalError"},
           [NoFields EXCEPT !.move = randomMove])

\* The success response with the turn and the check read before the move.
successResponseBeforeMove(fen, validatedMove) ==
  Response(200, {"move", "turn", "inCheck", "gameOver"} \cup
                  (IF fen.check THEN {"message"} ELSE {}),
           [NoFields EXCEPT !.move = validatedMove,
                            !.turn = IF fen.turn = "w" THEN "white" ELSE "black",
                            !.inCheck = fen.check,
                            !.gameOver = FALSE])

\* The success response with gameOver read from the position after the move.
successResponseGameOverAfterMove(fen, validatedMove) ==
  LET i       == moveFromSan(FromFen(fen), validatedMove)
      after   == [turn |-> Other(fen.turn), check |-> fen.moves[i].check]
      message == IF after.check THEN {"message"} ELSE {}
  IN  Response(200, {"move", "turn", "inCheck", "gameOver"} \cup message,
               [NoFields EXCEPT !.move = validatedMove,
                                !.turn = IF after.turn = "w" THEN "white" ELSE "black",
                                !.inCheck = after.check,
                                !.gameOver = fen.moves[i].mate])

\* The success response for a validated move: the position after the move
\* has the other side to move, in check when the move gives check.
successResponse(fen, validatedMove) ==
  LET i       == moveFromSan(FromFen(fen), validatedMove)
      after   == [turn |-> Other(fen.turn), check |-> fen.moves[i].check]
      message == IF after.check THEN {"message"} ELSE {}
  IN  Response(200, {"move", "turn", "inCheck", "gameOver"} \cup message,
               [NoFields EXCEPT !.move = validatedMove,
                                !.turn = IF after.turn = "w" THEN "white" ELSE "black",
                                !.inCheck = after.check,
                                !.gameOver = FALSE])

\* The game-over responses that follow createChessGame in POST.
gameOverResponse(p) ==
  IF isCheckmate(p)
    THEN Response(200, {"error", "gameOver", "winner", "reason"},
                  [NoFields EXCEPT !.error = "Checkmate!", !.gameOver = TRUE,
                                   !.winner = IF turn(p) = "w" THEN "Black" ELSE "White",
                                   !.reason = "checkmate"])
  ELSE IF isDraw(p)
    THEN Response(200, {"error", "gameOver", "winner", "reason"},
                  [NoFields EXCEPT !.error = "Game drawn", !.gameOver = TRUE,
                                   !.winner = "null",
                                   !.reason = IF isStalemate(p) THEN "stalemate"
                                              ELSE IF isThreefoldRepetition(p)
                                                THEN "threefold repetition"
                                              ELSE IF isInsufficientMaterial(p)
                                                THEN "insufficient material"
                                              ELSE "draw"])
  ELSE Response(200, {"error", "gameOver", "winner", "reason"},
                [NoFields EXCEPT !.error = "Game over", !.gameOver = TRUE,
                                 !.winner = "null", !.reason = "unknown"])

Respond(r) == resp' = r /\ stage' = "respond"

\* A request arrives: POST starts and awaits request.json().
POST(r, b) ==
  /\ stage = "idle"
  /\ route' = r
  /\ body' = b
  /\ stage' = "validate-input"
  /\ UNCHANGED <<nodeEnv, game, model, apiError, completion, modelCalls, resp>>

\* request.json() settles; the fen is read from the body.
ValidateInput ==
  /\ stage = "validate-input"
  /\ CASE body.kind = "not-json" ->
            Respond(Response(400, {"error"}, [NoFields EXCEPT !.error = MsgInvalidJson]))
       [] body.kind = "null" ->
            Respond(errorResponse(Err(MsgNullBody), nodeEnv))
       [] body.kind \in {"primitive", "no-fen", "fen-empty"} ->
            Respond(Response(400, {"error"}, [NoFields EXCEPT !.error = MsgFenRequired]))
       [] OTHER ->
            stage' = "check-game-over" /\ UNCHANGED resp
  /\ UNCHANGED <<route, nodeEnv, body, game, model, apiError, completion, modelCalls>>

\* createChessGame(fen), game.moves() and the game-status tests.
CheckGameOver ==
  /\ stage = "check-game-over"
  /\ LET thrown == createChessGame(body)
     IN  IF thrown # NoError
           THEN Respond(errorResponse(thrown, nodeEnv)) /\ UNCHANGED game
         ELSE IF isCheckmate(body.fen) \/ isDraw(body.fen) \/ isGameOver(body.fen)
           THEN Respond(gameOverResponse(body.fen)) /\ game' = body.fen
         ELSE stage' = "build-prompt" /\ game' = body.fen /\ UNCHANGED resp
  /\ UNCHANGED <<route, nodeEnv, body, model, apiError, completion, modelCalls>>

\* BuildPrompt going on without the upstream call.
BuildPromptWithoutCall ==
  /\ stage = "build-prompt"
  /\ model' = selectModel(route, Len(moves(game)))
  /\ stage' = "validate-response"
  /\ UNCHANGED <<route, nodeEnv, body, game, apiError, completion, modelCalls, resp>>

\* selectModel, getAISettings, getChessPrompt, and the upstream call is made.
BuildPrompt ==
  /\ stage = "build-prompt"
  /\ model' = selectModel(route, Len(moves(game)))
  /\ modelCalls' = modelCalls + 1
  /\ stage' = "call-external-model"
  /\ UNCHANGED <<route, nodeEnv, body, game, apiError, completion, resp>>

\* The upstream call rejects: the quota fallback, or the error is re-thrown
\* to the outer catch.
ModelThrows(e) ==
  /\ stage = "call-external-model"
  /\ apiError' = e
  /\ IF isQuotaError(e)
       THEN \E randomMove \in randomMoves(moves(game)) : Respond(quotaResponse(randomMove))
       ELSE Respond(errorResponse(e, nodeEnv))
  /\ UNCHANGED <<route, nodeEnv, body, game, model, completion, modelCalls>>

\* The upstream call resolves.
ModelReplies(c) ==
  /\ stage = "call-external-model"
  /\ completion' = c
  /\ stage' = "validate-response"
  /\ UNCHANGED <<route, nodeEnv, body, game, model, apiError, modelCalls, resp>>

\* ValidateResponse answering with the model's move in place of the
\* validated one.
ValidateResponseRawMove ==
  /\ stage = "validate-response"
  /\ IF ~completion.choices
       THEN Respond(errorResponse(Err(MsgNoChoices), nodeEnv))
     ELSE LET content == completion.content
              move    == IF content.kind \in {"undefined", "null"}
                           THEN Undefined ELSE trim(content)
          IN  IF Falsy(move)
                THEN Respond(errorResponse(Err(MsgNoMove), nodeEnv))
              ELSE \E validatedMove \in validateMove(game, move, moves(game)) :
                     Respond([successResponse(game, validatedMove) EXCEPT !.move = move])
  /\ UNCHANGED <<route, nodeEnv, body, game, model, apiError, completion, modelCalls>>

\* The reply is read, validated and applied to a fresh game.
ValidateResponse ==
  /\ stage = "validate-response"
  /\ IF ~completion.choices
       THEN Respond(errorResponse(Err(MsgNoChoices), nodeEnv))
     ELSE LET content == completion.content
              move    == IF content.kind \in {"undefined", "null"}
                           THEN Undefined ELSE trim(content)
          IN  IF Falsy(move)
                THEN Respond(errorResponse(Err(MsgNoMove), nodeEnv))
              ELSE \E validatedMove \in validateMove(game, move, moves(game)) :
                     IF createChessGame(body) # NoError
                       THEN Respond(errorResponse(createChessGame(body), nodeEnv))
                     ELSE IF moveThrows(game, validatedMove)
                       THEN Respond(errorResponse(Err(MsgInvalidMove), nodeEnv))
                     ELSE Respond(successResponse(game, validatedMove))
  /\ UNCHANGED <<route, nodeEnv, body, game, model, apiError, completion, modelCalls>>

EpIdle ==
  /\ route = "chess-move" /\ nodeEnv = "production" /\ body = NoBody
  /\ stage = "idle" /\ game = NoGame /\ model = "" /\ apiError = NoError
  /\ completion = NoCompletion /\ modelCalls = 0 /\ resp = NoResponse



\* ------------------------------------------------------------- simple-eval harness

EvIdle == evGame = NoGame /\ evDone = FALSE /\ evScore = 0

\* evaluateBoard(game) is called and returns.
Evaluate ==
  /\ ~evDone
  /\ evDone' = TRUE
  /\ evScore' = evaluateBoard(evGame)
  /\ UNCHANGED evGame

\* ------------------------------------------------------------- getAiMove

\* How fetch('/api/chess-move') settles: it rejects (network failure), or
\* resolves to a response that is ok or not, whose body is no JSON, the JSON
\* value null, or an object whose move field is any value.
FetchOutcomes ==
  {[kind |-> "reject", ok |-> FALSE, json |-> "invalid", move |-> Undefined]} \cup
  {[kind |-> "response", ok |-> ok, json |-> j, move |-> Undefined] :
     ok \in BOOLEAN, j \in {"invalid", "null"}} \cup
  {[kind |-> "response", ok |-> ok, json |-> "object", move |-> v] :
     ok \in BOOLEAN, v \in Values}

NoFetch == [kind |-> "none", ok |-> FALSE, json |-> "invalid", move |-> Undefined]

\* moves[Math.floor(Math.random() * moves.length)] || null
fallbackMoves(legalMoves) ==
  IF Len(legalMoves) = 0 THEN {Value("null")}
  ELSE {legalMoves[i] : i \in 1..Len(legalMoves)}

\* getAiMove without its outer catch: a failure rejects the promise.
getAiMoveSettleNoCatch(p, o) ==
  LET failed == \/ o.kind = "reject"
                \/ ~o.ok
                \/ o.json \in {"invalid", "null"}
                \/ moveThrows(p, o.move)
  IN  IF ~failed
        THEN {[state |-> "resolved", value |-> o.move]}
        ELSE {[state |-> "rejected", value |-> Undefined]}

\* The try/catch of getAiMove once the fetch has settled: how the promise
\* settles, and with what value.
getAiMoveSettle(p, o) ==
  LET failed == \/ o.kind = "reject"
                \/ ~o.ok
                \/ o.json \in {"invalid", "null"}
                \/ moveThrows(p, o.move)
  IN  IF ~failed
        THEN {[state |-> "resolved", value |-> o.move]}
        ELSE {[state |-> "resolved", value |-> m] : m \in fallbackMoves(moves(p))}

AiIdle == aiGame = NoGame /\ aiPc = "idle" /\ aiFetch = NoFetch /\ aiResult = Undefined

\* getAiMove(game) is called: null for a finished game, else the fetch is made.
getAiMove ==
  /\ aiPc = "idle"
  /\ IF isGameOver(aiGame) \/ isDraw(aiGame)
       THEN aiPc' = "resolved" /\ aiResult' = Value("null")
       ELSE aiPc' = "fetching" /\ UNCHANGED aiResult
  /\ UNCHANGED <<aiGame, aiFetch>>

\* The fetch settles and getAiMove runs to its end.
FetchSettles(o) ==
  /\ aiPc = "fetching"
  /\ aiFetch' = o
  /\ \E s \in getAiMoveSettle(aiGame, o) : aiPc' = s.state /\ aiResult' = s.value
  /\ UNCHANGED aiGame

\* ------------------------------------------------------------- getChessPrompt

\* Most legal moves of a prompted position that are modelled one by one.
MaxCaptures == 2

\* getChessPrompt: fewer plies than this is the opening.
OpeningPlies == 10
\* getChessPrompt: more plies than this is the endgame.
EndgamePlies == 30

\* The plies played in the game before the request (the FEN carries them as
\* its full-move number and side to move).
PlyCounts == {0, OpeningPlies - 1, OpeningPlies, EndgamePlies, EndgamePlies + 1}

\* The destination squares of the moves modelled one by one.
PromptSquares == {"d5", "e5"}

\* A move of game.moves({ verbose: true }): the colour of the moving piece,
\* its destination and the type of the piece it captures ("": none).
VerboseMoves(c) == [color : {c}, to : PromptSquares, captured : {"", "p", "q"}]

\* The further legal moves of the position, which capture nothing.
OtherMoveCounts == {0, 29, 30}

\* The position of a FEN handed to the prompt builder: the side to move, the
\* plies played, its legal moves (every one a move of the side to move) and
\* the squares the opponent could move to in one move.  The position is not
\* finished, so it has a legal move.
PromptFens ==
  UNION {
    {f \in [turn : {c}, plies : PlyCounts,
            allMoves : UNION {[1..n -> VerboseMoves(c)] : n \in 0..MaxCaptures},
            others : OtherMoveCounts, reach : SUBSET PromptSquares] :
       Len(f.allMoves) + f.others > 0}
    : c \in {"w", "b"}}

NoPromptFen == [turn |-> "w", plies |-> 0, allMoves |-> <<>>, others |-> 0, reach |-> {}]

\* legalMoves.length
legalMoveCount(f) == Len(f.allMoves) + f.others

\* new Chess(fen).history(): a game read from a FEN has no moves behind it.
fenHistory(f) == <<>>

\* 'Opening' / 'Endgame' / 'Middlegame' from isOpening and isEndgame.
gamePhase(moveHistory) ==
  LET isOpening == Len(moveHistory) < OpeningPlies
      isEndgame == Len(moveHistory) > EndgamePlies
  IN  IF isOpening THEN "Opening" ELSE IF isEndgame THEN "Endgame" ELSE "Middlegame"

getPieceValue(piece) ==
  CASE piece = "p" -> 1
    [] piece = "n" -> 3
    [] piece = "b" -> 3
    [] piece = "r" -> 5
    [] piece = "q" -> 9
    [] OTHER       -> 0

\* isSquareDefended(game, square, byColor): some legal move of a fresh game
\* at the same position is a move of byColor to the square.
isSquareDefended(f, square, byColor) ==
  \E j \in 1..Len(f.allMoves) :
    f.allMoves[j].to = square /\ f.allMoves[j].color = byColor

\* The filter of hangingPieces: move.captured && move.color === opponentColor
isHangingCapture(move, opponentColor) ==
  move.captured # "" /\ move.color = opponentColor

\* The entry of hangingPieces for a move.
hangingEntry(f, move) ==
  [to |-> move.to, captured |-> move.captured,
   value |-> getPieceValue(move.captured),
   defended |-> isSquareDefended(f, move.to, f.turn)]

\* filter and map over the first n moves.
RECURSIVE hangingOf(_, _)
hangingOf(f, n) ==
  IF n = 0 THEN <<>>
  ELSE IF isHangingCapture(f.allMoves[n], Other(f.turn))
    THEN Append(hangingOf(f, n - 1), hangingEntry(f, f.allMoves[n]))
  ELSE hangingOf(f, n - 1)

\* Array.prototype.sort by value, the most valuable first (stable).
RECURSIVE sortByValue(_)
sortByValue(list) ==
  IF Len(list) <= 1 THEN list
  ELSE LET rest == sortByValue(SubSeq(list, 1, Len(list) - 1))
           last == list[Len(list)]
           k    == Cardinality({j \in 1..Len(rest) : rest[j].value >= last.value})
       IN  SubSeq(rest, 1, k) \o <<last>> \o SubSeq(rest, k + 1, Len(rest))

\* hangingPieces of the chess-move-2 prompt.
hangingPieces(f) == sortByValue(hangingOf(f, Len(f.allMoves)))

\* getChessPrompt(fen, legalMoves): the game phase it names and, in
\* chess-move-2, its hanging-piece list.
getChessPrompt(r, f) ==
  [phase   |-> gamePhase(fenHistory(f)),
   hanging |-> IF r = "chess-move-2" THEN hangingPieces(f) ELSE <<>>]

NoPrompt == [model |-> "", phase |-> "", hanging |-> <<>>]

\* POST chooses the model for the position.
SelectModel ==
  /\ prPc = "start"
  /\ prOut' = [prOut EXCEPT !.model = selectModel(prIn.route, legalMoveCount(prIn.fen))]
  /\ prPc' = "selected"
  /\ UNCHANGED prIn

\* POST builds the prompt.
GetChessPrompt ==
  /\ prPc = "selected"
  /\ LET prompt == getChessPrompt(prIn.route, prIn.fen)
     IN  prOut' = [prOut EXCEPT !.phase = prompt.phase, !.hanging = prompt.hanging]
  /\ prPc' = "prompted"
  /\ UNCHANGED prIn

PrIdle ==
  /\ prIn = [route |-> "chess-move", fen |-> NoPromptFen]
  /\ prPc = "idle" /\ prOut = NoPrompt

\* ------------------------------------------------------------- useChessGame

\* Most plies the board holder holds.
MaxPlies == 4
\* Most requests outstanding at once.
MaxPending == 2

\* The boards of the games played in the hook.
HookBoards == {"start", "KQvK", "KvK"}

\* The legal-move lists of the positions of such a game.
HookMoveLists == {<<>>} \cup {<<k>> : k \in MoveKinds}

\* new Chess(): the initial position.
NewChess == [board |-> "start", turn |-> "w", check |-> FALSE,
             moves |-> <<[check |-> FALSE, mate |-> FALSE]>>,
             halfMoves |-> 0, reps |-> 1]

\* The same position for the repetition count: board, side to move, rights.
SamePosition(a, b) ==
  a.board = b.board /\ a.turn = b.turn /\ a.check = b.check /\ a.moves = b.moves

\* game.move(m) for the i-th legal move of p: the positions it can lead to.
\* The other side is to move, in check when the move gives check and mated
\* when it mates; a capture changes the board and resets the half-move
\* clock, another move resets it (pawn move) or advances it (the clock value
\* 0 stands for every clock below 99); the position has occurred at most
\* once more than it is found among the earlier positions of the game.  The
\* first move of a game captures nothing and does not end the game.
afterMove(p, i, earlier) ==
  LET k      == p.moves[i]
      boards == CASE p.board = "start" -> HookBoards
                  [] p.board = "KQvK"  -> {"KQvK", "KvK"}
                  [] OTHER             -> {p.board}
      clocks(board) ==
        IF board # p.board THEN {0}
        ELSE IF p.halfMoves = 0 THEN {0, FiftyMoveClock - 1}
        ELSE {0, p.halfMoves + 1}
      seen(q) == Cardinality({j \in 1..Len(earlier) : SamePosition(earlier[j], q)})
  IN  {q \in [board : boards, turn : {Other(p.turn)}, check : {k.check},
              moves : HookMoveLists, halfMoves : HalfMoveValues,
              reps : 1..RepetitionLimit] :
         /\ q \in Positions
         /\ q.halfMoves \in clocks(q.board)
         /\ k.mate <=> isCheckmate(q)
         /\ q.reps <= 1 + seen(q)
         /\ Len(earlier) = 1 =>
              q.board = p.board /\ q.halfMoves = 0 /\ Len(q.moves) > 0}

\* The positions the board holder went through, oldest first.
positionsOf(undo, p) == [j \in 1..Len(undo) + 1 |->
                           IF j <= Len(undo) THEN undo[j].pos ELSE p]

\* game.history(): the moves played, oldest first.
historyOf(undo) == [j \in 1..Len(undo) |-> undo[j].san]

\* The value null of the error and gameResult states.
NoResult == [winner |-> "", reason |-> "", message |-> ""]

MsgHookInvalidMove == "Invalid move"
MsgHookAiFailed    == "Failed to get AI move. Please try again."

getGameOverMessage(reason, winner) ==
  CASE reason = "checkmate" ->
         IF winner = "white" THEN "Checkmate! White wins!" ELSE "Checkmate! Black wins!"
    [] reason = "stalemate"             -> "Game drawn by stalemate"
    [] reason = "insufficient-material" -> "Game drawn by insufficient material"
    [] reason = "threefold-repetition"  -> "Game drawn by threefold repetition"
    [] OTHER                            -> "Game over"

\* The React state after construction.
InitialUi ==
  [fen |-> FromFen(NewChess), history |-> <<>>, evaluation |-> 0, error |-> "",
   gameOver |-> FALSE, status |-> "player-turn", gameResult |-> NoResult]

\* updateGameState(): the React state u after it, for the board holder at
\* position g with the plies undo.
updateGameState(u, g, undo, mounted) ==
  IF ~mounted THEN u
  ELSE LET synced == [u EXCEPT !.fen = FromFen(g),
                               !.history = historyOf(undo),
                               !.evaluation = evaluateBoard(g)]
           initial == IF turn(g) = "w" THEN "black" ELSE "white"
           reason  == IF isCheckmate(g) THEN "checkmate"
                      ELSE IF isStalemate(g) THEN "stalemate"
                      ELSE IF isInsufficientMaterial(g) THEN "insufficient-material"
                      ELSE IF isThreefoldRepetition(g) THEN "threefold-repetition"
                      ELSE "game-over"
           winner  == IF reason \in {"checkmate", "game-over"} THEN initial ELSE "null"
       IN  IF isGameOver(g) \/ isDraw(g)
             THEN [synced EXCEPT !.gameOver = TRUE, !.status = "game-over",
                                 !.gameResult = [winner |-> winner, reason |-> reason,
                                                 message |-> getGameOverMessage(reason, winner)]]
           ELSE IF turn(g) = "b" THEN [synced EXCEPT !.status = "ai-thinking"]
           ELSE [synced EXCEPT !.status = "player-turn"]

\* The controls that are never disabled.
isDisabledNever(u) == FALSE

\* Controls that are disabled only while the AI is thinking.
isDisabledWhileThinking(u) == u.status = "ai-thinking"

\* page.tsx: isDisabled of GameControls, isAIThinking || gameOver.
isDisabled(u) == u.status = "ai-thinking" \/ u.gameOver

\* What the last operation did: the operation, whether it changed the board
\* holder, the side whose move it applied, and, for an AI reply, whether the
\* position it was applied to is the one it was requested for.
Last(op, applied, side, onRequested) ==
  [op |-> op, applied |-> applied, side |-> side, onRequested |-> onRequested]

NoLast == Last("none", FALSE, "-", TRUE)

\* makeAIMove up to its await: the React state, and whether getAiMove was
\* called and made its request.
makeAIMove(u, g) ==
  IF isGameOver(g) \/ isDraw(g)
    THEN [ui |-> [u EXCEPT !.status = "game-over"], requested |-> FALSE]
    ELSE [ui |-> [u EXCEPT !.status = "ai-thinking", !.error = ""], requested |-> TRUE]

\* onDrop(source, target): the drop of a white piece (handlePieceDrag lets no
\* other piece be dragged) that is the i-th legal move, or none (i = 0).
onDrop(i) ==
  /\ hkLive
  /\ IF hkUi.status # "player-turn"
       THEN /\ hkLast' = Last("onDrop", FALSE, "-", TRUE)
            /\ UNCHANGED <<hkGame, hkUndo, hkUi, hkPending>>
     ELSE IF ~(turn(hkGame) = "w" /\ i \in 1..Len(hkGame.moves))
       THEN /\ hkUi' = [hkUi EXCEPT !.error = MsgHookInvalidMove]
            /\ hkLast' = Last("onDrop", FALSE, "-", TRUE)
            /\ UNCHANGED <<hkGame, hkUndo, hkPending>>
     ELSE /\ Len(hkUndo) + 2 <= MaxPlies
          /\ Len(hkPending) < MaxPending
          /\ \E q \in afterMove(hkGame, i, positionsOf(hkUndo, hkGame)) :
               LET undo    == Append(hkUndo, [pos |-> hkGame, san |-> san(hkGame, i)])
                   updated == updateGameState(hkUi, q, undo, hkMounted)
                   made    == makeAIMove(updated, q)
               IN  /\ hkGame' = q
                   /\ hkUndo' = undo
                   /\ IF ~isGameOver(q) /\ ~isDraw(q)
                        THEN /\ hkUi' = made.ui
                             /\ hkPending' = IF made.requested
                                               THEN Append(hkPending, q) ELSE hkPending
                        ELSE hkUi' = updated /\ UNCHANGED hkPending
                   /\ hkLast' = Last("onDrop", TRUE, turn(hkGame), TRUE)
  /\ UNCHANGED <<hkMounted, hkLive>>

\* The fetch of the n-th outstanding request settles as o: getAiMove runs to
\* its end on the board holder as it is now, and makeAIMove resumes.
AiSettles(n, o) ==
  /\ n \in 1..Len(hkPending)
  /\ Len(hkUndo) < MaxPlies
  /\ hkPending' = [j \in 1..Len(hkPending) - 1 |->
                     IF j < n THEN hkPending[j] ELSE hkPending[j + 1]]
  /\ \E s \in getAiMoveSettle(hkGame, o) :
       LET aiMove == s.value
           i      == moveFromSan(hkGame, aiMove)
           failed == [hkUi EXCEPT !.error = MsgHookAiFailed, !.status = "player-turn"]
       IN  IF s.state = "rejected"
             THEN /\ hkUi' = failed
                  /\ hkLast' = Last("ai", FALSE, "-", TRUE)
                  /\ UNCHANGED <<hkGame, hkUndo>>
           ELSE IF ~hkMounted \/ Falsy(aiMove)
             THEN /\ hkLast' = Last("ai", FALSE, "-", TRUE)
                  /\ UNCHANGED <<hkGame, hkUndo, hkUi>>
           ELSE IF i = 0
             THEN /\ hkUi' = failed
                  /\ hkLast' = Last("ai", FALSE, "-", TRUE)
                  /\ UNCHANGED <<hkGame, hkUndo>>
           ELSE \E q \in afterMove(hkGame, i, positionsOf(hkUndo, hkGame)) :
                  LET undo == Append(hkUndo, [pos |-> hkGame, san |-> san(hkGame, i)])
                  IN  /\ hkGame' = q
                      /\ hkUndo' = undo
                      /\ hkUi' = updateGameState(hkUi, q, undo, hkMounted)
                      /\ hkLast' = Last("ai", TRUE, turn(hkGame), hkPending[n] = hkGame)
  /\ UNCHANGED <<hkMounted, hkLive>>

\* resetGame(), from the Reset button of GameControls.
resetGame ==
  /\ hkLive /\ ~isDisabled(hkUi)
  /\ hkGame' = NewChess
  /\ hkUndo' = <<>>
  /\ hkUi' = updateGameState([hkUi EXCEPT !.gameOver = FALSE, !.error = ""],
                             NewChess, <<>>, hkMounted)
  /\ hkLast' = Last("reset", TRUE, "-", TRUE)
  /\ UNCHANGED <<hkMounted, hkLive, hkPending>>

\* An undoMove with a single game.undo().
undoMoveOnePly ==
  /\ hkLive /\ ~isDisabled(hkUi)
  /\ IF hkUi.status # "player-turn" \/ Len(hkUndo) < 2
       THEN /\ hkLast' = Last("undo", FALSE, "-", TRUE)
            /\ UNCHANGED <<hkGame, hkUndo, hkUi>>
       ELSE LET undo == SubSeq(hkUndo, 1, Len(hkUndo) - 1)
                g    == hkUndo[Len(hkUndo)].pos
            IN  /\ hkGame' = g
                /\ hkUndo' = undo
                /\ hkUi' = updateGameState(hkUi, g, undo, hkMounted)
                /\ hkLast' = Last("undo", TRUE, "-", TRUE)
  /\ UNCHANGED <<hkMounted, hkLive, hkPending>>

\* undoMove(), from the Undo button of GameControls.
undoMove ==
  /\ hkLive /\ ~isDisabled(hkUi)
  /\ IF hkUi.status # "player-turn" \/ Len(hkUndo) < 2
       THEN /\ hkLast' = Last("undo", FALSE, "-", TRUE)
            /\ UNCHANGED <<hkGame, hkUndo, hkUi>>
       ELSE LET undo == SubSeq(hkUndo, 1, Len(hkUndo) - 2)
                g    == hkUndo[Len(hkUndo) - 1].pos
            IN  /\ hkGame' = g
                /\ hkUndo' = undo
                /\ hkUi' = updateGameState(hkUi, g, undo, hkMounted)
                /\ hkLast' = Last("undo", TRUE, "-", TRUE)
  /\ UNCHANGED <<hkMounted, hkLive, hkPending>>

\* An error effect whose timer leaves the error in place.
ClearErrorNever ==
  /\ hkLive /\ hkUi.error # ""
  /\ UNCHANGED hkVars

\* The timer of the error effect fires: setError(null).
ClearError ==
  /\ hkLive /\ hkUi.error # ""
  /\ hkUi' = [hkUi EXCEPT !.error = ""]
  /\ UNCHANGED <<hkGame, hkUndo, hkMounted, hkLive, hkPending, hkLast>>

\* The component is unmounted: the cleanup of the mount effect runs.
Unmount ==
  /\ hkLive
  /\ hkMounted' = FALSE
  /\ hkLive' = FALSE
  /\ UNCHANGED <<hkGame, hkUndo, hkUi, hkPending, hkLast>>

HkIdle ==
  /\ hkGame = NewChess /\ hkUndo = <<>> /\ hkUi = InitialUi /\ hkMounted = TRUE
  /\ hkLive = TRUE /\ hkPending = <<>> /\ hkLast = NoLast

\* The hook after the first render.  Under React's Strict Mode
\* (reactStrictMode: true in next.config.js) a development build runs the
\* mount effect's cleanup once and mounts again with the same ref, so
\* isMounted.current is false from then on; otherwise it is true.
InitHook ==
  /\ hkGame = NewChess /\ hkUndo = <<>> /\ hkUi = InitialUi
  /\ hkMounted \in BOOLEAN
  /\ hkLive = TRUE /\ hkPending = <<>> /\ hkLast = NoLast
  /\ EvIdle /\ EpIdle /\ AiIdle /\ PrIdle

NextHook ==
  \/ \E i \in 0..1 : onDrop(i) /\ UNCHANGED <<evVars, epVars, aiVars, prVars>>
  \/ \E n \in 1..MaxPending, o \in FetchOutcomes :
       AiSettles(n, o) /\ UNCHANGED <<evVars, epVars, aiVars, prVars>>
  \/ resetGame /\ UNCHANGED <<evVars, epVars, aiVars, prVars>>
  \/ undoMove /\ UNCHANGED <<evVars, epVars, aiVars, prVars>>
  \/ ClearError /\ UNCHANGED <<evVars, epVars, aiVars, prVars>>
  \/ Unmount /\ UNCHANGED <<evVars, epVars, aiVars, prVars>>

SpecHook == InitHook /\ [][NextHook]_vars

\* The hook when every fetch settles.
SpecHookLive ==
  /\ SpecHook
  /\ WF_vars(\E n \in 1..MaxPending, o \in FetchOutcomes :
               AiSettles(n, o) /\ UNCHANGED <<evVars, epVars, aiVars, prVars>>)

\* The hook when the timer of the error effect fires after its delay.
SpecHookTimer ==
  /\ SpecHook
  /\ WF_vars(ClearError /\ UNCHANGED <<evVars, epVars, aiVars, prVars>>)

InitPrompt ==
  /\ prIn \in [route : {"chess-move", "chess-move-2"}, fen : PromptFens]
  /\ prPc = "start" /\ prOut = NoPrompt
  /\ EvIdle /\ EpIdle /\ AiIdle /\ HkIdle

NextPrompt ==
  \/ SelectModel /\ UNCHANGED <<evVars, epVars, aiVars, hkVars>>
  \/ GetChessPrompt /\ UNCHANGED <<evVars, epVars, aiVars, hkVars>>

SpecPrompt == InitPrompt /\ [][NextPrompt]_vars

\* The games getAiMove is called with.
ClientGames == {p \in Positions : p.board \in FenBoards}

InitClient == aiGame \in ClientGames /\ aiPc = "idle" /\ aiFetch = NoFetch
              /\ aiResult = Undefined /\ EvIdle /\ EpIdle /\ HkIdle
              /\ PrIdle

NextClient ==
  \/ getAiMove /\ UNCHANGED <<evVars, epVars, hkVars, prVars>>
  \/ \E o \in FetchOutcomes : FetchSettles(o) /\ UNCHANGED <<evVars, epVars, hkVars, prVars>>

SpecClient == InitClient /\ [][NextClient]_vars

InitEndpoint ==
  /\ route = "chess-move" /\ body = NoBody
  /\ nodeEnv \in {"development", "production"}
  /\ stage = "idle" /\ game = NoGame /\ model = "" /\ apiError = NoError
  /\ completion = NoCompletion /\ modelCalls = 0 /\ resp = NoResponse
  /\ EvIdle /\ AiIdle /\ HkIdle /\ PrIdle

NextEndpoint ==
  \/ \E r \in {"chess-move", "chess-move-2"}, b \in Bodies :
       POST(r, b) /\ UNCHANGED <<evVars, aiVars, hkVars, prVars>>
  \/ ValidateInput /\ UNCHANGED <<evVars, aiVars, hkVars, prVars>>
  \/ CheckGameOver /\ UNCHANGED <<evVars, aiVars, hkVars, prVars>>
  \/ BuildPrompt /\ UNCHANGED <<evVars, aiVars, hkVars, prVars>>
  \/ \E e \in UpstreamErrors : ModelThrows(e) /\ UNCHANGED <<evVars, aiVars, hkVars, prVars>>
  \/ \E c \in Completions : ModelReplies(c) /\ UNCHANGED <<evVars, aiVars, hkVars, prVars>>
  \/ ValidateResponse /\ UNCHANGED <<evVars, aiVars, hkVars, prVars>>

SpecEndpoint == InitEndpoint /\ [][NextEndpoint]_vars

InitEval == evGame \in Positions /\ evDone = FALSE /\ evScore = 0 /\ EpIdle /\ AiIdle
            /\ HkIdle /\ PrIdle

NextEval == Evaluate /\ UNCHANGED <<epVars, aiVars, hkVars, prVars>>

SpecEval == InitEval /\ [][NextEval]_vars

\* ------------------------------------------------------------------ claims

\* The game is finished for the callers: game.isGameOver() || game.isDraw().
Finished(p) == isGameOver(p) \/ isDraw(p)

\* The value is, verbatim, a member of the legal-move list of the position.
InLegalList(p, v) == \E i \in 1..Len(moves(p)) : v = moves(p)[i]

\* The endpoint has answered the FEN of a position.
AnsweredFen == stage = "respond" /\ body.kind = "fen"

\* C1: getAiMove never rejects; on a finished position it resolves to null;
\* on an unfinished one it resolves to a move that is legal there: the
\* endpoint's move when the fetch succeeded with a legal move, and a member
\* of the legal-move list in every other case.
C1_GetAiMoveLegal ==
  /\ aiPc # "rejected"
  /\ aiPc = "resolved" =>
       IF Finished(aiGame)
         THEN aiResult = Value("null")
         ELSE LET accepted == /\ aiFetch.kind = "response" /\ aiFetch.ok
                              /\ aiFetch.json = "object"
                              /\ moveFromSan(FromFen(aiGame), aiFetch.move) # 0
              IN  /\ aiResult # Value("null")
                  /\ moveFromSan(FromFen(aiGame), aiResult) \in 1..Len(aiGame.moves)
                  /\ accepted => aiResult = aiFetch.move
                  /\ ~accepted => InLegalList(aiGame, aiResult)

\* C1 witness: the endpoint answered 200 with a move string that is not
\* legal, and getAiMove resolved to a member of the legal-move list.
C1_Witness ==
  /\ aiPc = "resolved" /\ ~Finished(aiGame)
  /\ aiFetch.kind = "response" /\ aiFetch.ok /\ aiFetch.json = "object"
  /\ aiFetch.move.kind = "move" /\ moveFromSan(FromFen(aiGame), aiFetch.move) = 0
  /\ InLegalList(aiGame, aiResult)

\* C2 as claimed: a move in a response is, verbatim, a member of the
\* legal-move list generated from the FEN.
C2_MoveInLegalList ==
  stage = "respond" /\ "move" \in resp.has => InLegalList(body.fen, resp.move)

\* C2 as amended: a move in a response is resolved by the rules engine to a
\* legal move of the FEN's position, so applying it never throws; it is a
\* verbatim member of the legal-move list unless it is the model's own
\* (trimmed) reply.
C2_MoveResolvesToLegal ==
  stage = "respond" /\ "move" \in resp.has =>
    /\ body.kind = "fen"
    /\ moveFromSan(FromFen(body.fen), resp.move) \in 1..Len(body.fen.moves)
    /\ ~InLegalList(body.fen, resp.move) =>
         /\ completion.choices
         /\ completion.content.kind = "move"
         /\ resp.move = trim(completion.content)

\* C2 witness: the model's reply was not legal and a random member of the
\* legal-move list was sent in its place.
C2_Witness ==
  /\ AnsweredFen /\ "move" \in resp.has
  /\ completion.choices /\ completion.content.kind = "move"
  /\ moveFromSan(FromFen(body.fen), trim(completion.content)) = 0
  /\ InLegalList(body.fen, resp.move)

\* C3: the FEN of a checkmated position is answered 200 with gameOver true,
\* reason "checkmate" and the winner; the FEN of a drawn position is answered
\* 200 with gameOver true, winner null and a draw reason.
C3_FinishedAnswered200 ==
  AnsweredFen =>
    /\ isCheckmate(body.fen) =>
         /\ resp.status = 200
         /\ "gameOver" \in resp.has /\ resp.gameOver
         /\ resp.reason = "checkmate"
         /\ resp.winner = IF turn(body.fen) = "w" THEN "Black" ELSE "White"
    /\ ~isCheckmate(body.fen) /\ isDraw(body.fen) =>
         /\ resp.status = 200
         /\ "gameOver" \in resp.has /\ resp.gameOver
         /\ resp.winner = "null"
         /\ resp.reason \in {"stalemate", "threefold repetition",
                             "insufficient material", "draw"}

\* C4: the FEN of a finished position is answered 400 and the external model
\* is not called for it.
C4_FinishedAnswered400 ==
  body.kind = "fen" /\ Finished(body.fen) =>
    /\ modelCalls = 0
    /\ stage \in {"idle", "validate-input", "check-game-over", "respond"}
    /\ stage = "respond" => resp.status = 400

\* C4 witness: a checkmated position has been answered 400.
C4_Witness ==
  AnsweredFen /\ isCheckmate(body.fen) /\ resp.status = 400 /\ modelCalls = 0

\* C5: a body that is not JSON, has no fen, or whose fen is not a valid FEN
\* is answered 400 and the external model is not called.
C5_BadInputAnswered400 ==
  body.kind \in {"not-json", "null", "primitive", "no-fen", "fen-empty",
                 "fen-number", "fen-invalid"} =>
    /\ modelCalls = 0
    /\ stage = "respond" => resp.status = 400

\* C6: a quota or rate-limit error of the external model (code
\* 'insufficient_quota' or status 429) is answered 200 with a member of the
\* legal-move list and a warning.
C6_QuotaFallback ==
  stage = "respond" /\ (apiError.code = "insufficient_quota" \/ apiError.status = 429) =>
    /\ resp.status = 200
    /\ "move" \in resp.has /\ InLegalList(body.fen, resp.move)
    /\ "warning" \in resp.has

\* C6 witness: a rate-limit error (status 429, another code) was answered
\* with a move and a warning.
C6_Witness ==
  /\ AnsweredFen /\ apiError.status = 429 /\ apiError.code # "insufficient_quota"
  /\ resp.status = 200 /\ {"move", "warning"} \subseteq resp.has

\* The external model failed otherwise: it threw an error that is no quota
\* error, or its reply holds no move.
OtherUpstreamFailure ==
  \/ apiError # NoError
       /\ ~(apiError.code = "insufficient_quota" \/ apiError.status = 429)
  \/ completion # NoCompletion
       /\ (~completion.choices \/ Falsy(trim(completion.content)))

\* C7: every other failure of the external model is answered 500 with the
\* error message, with a stack only in development.
C7_OtherFailures500 ==
  stage = "respond" /\ OtherUpstreamFailure =>
    /\ resp.status = 500
    /\ "error" \in resp.has
    /\ apiError.isError => resp.error = apiError.message
    /\ "stack" \in resp.has => nodeEnv = "development"

\* The response describes the position after its move.
DescribesAfterMove ==
  LET i == moveFromSan(FromFen(body.fen), resp.move)
  IN  /\ {"turn", "inCheck", "gameOver"} \subseteq resp.has
      /\ i \in 1..Len(body.fen.moves)
      /\ resp.turn = (IF Other(turn(body.fen)) = "w" THEN "white" ELSE "black")
      /\ resp.inCheck = body.fen.moves[i].check

\* C8 as claimed: every response that carries a move carries turn, inCheck
\* and gameOver, turn and inCheck describing the position after the move.
C8_MoveCarriesStatus ==
  stage = "respond" /\ "move" \in resp.has => DescribesAfterMove

\* C8 as amended: a response that carries a move and no warning carries
\* turn, inCheck and gameOver, describing the position after the move; the
\* quota fallback response carries move, warning and originalError only.
C8_ValidatedMoveCarriesStatus ==
  stage = "respond" /\ "move" \in resp.has =>
    IF "warning" \in resp.has
      THEN resp.has = {"move", "warning", "originalError"}
      ELSE DescribesAfterMove

\* C8 witness: a success response whose move gives check.
C8_Witness ==
  /\ AnsweredFen /\ "move" \in resp.has /\ "warning" \notin resp.has
  /\ resp.inCheck /\ "message" \in resp.has

\* C9: evaluateBoard returns 0 for every drawn position (stalemate,
\* insufficient material, threefold repetition, fifty-move rule), whatever
\* the material.  A checkmated position is not drawn, also when isDraw()
\* reports the fifty-move clock for it.
C9_DrawEvaluatesZero ==
  evDone /\ ~isCheckmate(evGame)
         /\ (isDraw(evGame) \/ isStalemate(evGame) \/ isThreefoldRepetition(evGame)
               \/ isInsufficientMaterial(evGame))
    => evScore = 0

\* C9 witness: a stalemate with a queen up was evaluated.
C9_Witness ==
  evDone /\ isStalemate(evGame) /\ evGame.board = "KQvK" /\ evScore = 0

\* C10: the score is +100 or -100 exactly for the checkmated positions, +100
\* when Black is mated and -100 when White is.
C10_MateScoreIffCheckmate ==
  evDone =>
    /\ (evScore = CheckmateScore \/ evScore = 0 - CheckmateScore) <=> isCheckmate(evGame)
    /\ isCheckmate(evGame) =>
         evScore = (IF turn(evGame) = "b" THEN CheckmateScore ELSE 0 - CheckmateScore)

\* The number of pieces of a type and colour on a board.
CountPieces(board, type, color) ==
  Cardinality({s \in Squares : board[s[1]][s[2]] = [type |-> type, color |-> color]})

\* The material balance as the specification states it: pawn 1, knight 3,
\* bishop 3, rook 5, queen 9, king 0, White minus Black.
MaterialBalance(board) ==
  LET diff(type) == CountPieces(board, type, "w") - CountPieces(board, type, "b")
  IN  1 * diff("p") + 3 * diff("n") + 3 * diff("b") + 5 * diff("r") + 9 * diff("q")
        + 0 * diff("k")

\* The board with the colour of every piece swapped.
SwapColours(board) ==
  [r \in 1..8 |-> [f \in 1..8 |->
     IF board[r][f].type = "-" THEN E
     ELSE [type |-> board[r][f].type, color |-> Other(board[r][f].color)]]]

\* C11: on a position that is neither checkmate nor a draw evaluateBoard is
\* the material balance (piece values summed, White positive, Black
\* negative, nothing positional), and the board with all colours swapped
\* has the opposite material score.
C11_MaterialSum ==
  evDone /\ ~isCheckmate(evGame)
         /\ ~(isDraw(evGame) \/ isThreefoldRepetition(evGame)
                \/ isInsufficientMaterial(evGame))
    => /\ evScore = MaterialBalance(BoardOf(evGame.board))
       /\ materialScore(SwapColours(BoardOf(evGame.board))) = 0 - evScore

\* C11 witness: an ongoing position with Black a rook up was evaluated.
C11_Witness ==
  /\ evDone /\ evGame.board = "KvKR" /\ ~isCheckmate(evGame) /\ ~isDraw(evGame)
  /\ evScore = 0 - 5

\* C12: the React state fen, history and evaluation are the values derived
\* from the board holder: game.fen(), game.history() and evaluateBoard(game).
C12_UiDerivedFromGame ==
  /\ hkUi.fen = FromFen(hkGame)
  /\ hkUi.history = historyOf(hkUndo)
  /\ hkUi.evaluation = evaluateBoard(hkGame)

\* C13: at most one AI move request is outstanding; while one is, the status
\* is 'ai-thinking' and nothing but the reply changes the board holder (an
\* onDrop returns false and applies nothing).
C13_OneOutstandingRequest ==
  /\ [](/\ Len(hkPending) <= 1
        /\ Len(hkPending) = 1 => hkUi.status = "ai-thinking")
  /\ [][Len(hkPending) > 0 /\ hkLast'.op # "ai" =>
          hkGame' = hkGame /\ hkUndo' = hkUndo /\ Len(hkPending') = Len(hkPending)]_vars

\* C13 witness: a piece was dropped while a request was outstanding, and
\* onDrop returned false.
C13_Witness ==
  Len(hkPending) = 1 /\ hkLast = Last("onDrop", FALSE, "-", TRUE) /\ hkMounted

\* C16: when the hook reports the game as over, the reason of its result is
\* checkmate, stalemate, insufficient-material or threefold-repetition, as
\* the current position of the board holder has it; while the game is
\* ongoing there is no result.
C16_ResultReason ==
  /\ hkUi.gameOver =>
       /\ hkUi.gameResult.reason \in {"checkmate", "stalemate", "insufficient-material",
                                      "threefold-repetition"}
       /\ hkUi.gameResult.reason = "checkmate" => isCheckmate(hkGame)
       /\ hkUi.gameResult.reason = "stalemate" => isStalemate(hkGame)
       /\ hkUi.gameResult.reason = "insufficient-material" => isInsufficientMaterial(hkGame)
       /\ hkUi.gameResult.reason = "threefold-repetition" => isThreefoldRepetition(hkGame)
  /\ ~hkUi.gameOver => hkUi.gameResult = NoResult

\* C18: every move onDrop applies is a move of White and every move
\* makeAIMove applies is a move of Black, applied to the position the reply
\* was requested for; the status is 'player-turn' only with White to move.
C18_SidesAlternate ==
  /\ hkLast.op = "onDrop" /\ hkLast.applied => hkLast.side = "w"
  /\ hkLast.op = "ai" /\ hkLast.applied => hkLast.side = "b" /\ hkLast.onRequested
  /\ hkUi.status = "player-turn" => turn(hkGame) = "w"

\* C18 witness: an AI reply was applied as a move of Black, and it is the
\* player's turn again.
C18_Witness ==
  /\ hkLast = Last("ai", TRUE, "b", TRUE)
  /\ hkUi.status = "player-turn" /\ turn(hkGame) = "w" /\ Len(hkUndo) = 2

\* C20: a player move that leaves the game ongoing is followed by a request
\* to the AI, and no request is made otherwise; once the fetch settles a
\* move of Black is applied and the status leaves 'ai-thinking' for
\* 'player-turn' or 'game-over'.
C20_AiAnswersEveryMove ==
  /\ [][/\ Len(hkPending') > Len(hkPending) =>
             hkLast' = Last("onDrop", TRUE, "w", TRUE) /\ ~Finished(hkGame')
        /\ hkLast' = Last("onDrop", TRUE, "w", TRUE) /\ ~Finished(hkGame') =>
             Len(hkPending') = 1]_vars
  /\ (hkUi.status = "ai-thinking") ~>
       (/\ hkLast = Last("ai", TRUE, "b", TRUE)
        /\ hkUi.status \in {"player-turn", "game-over"})

\* C14: the prompt names the game phase by the plies played in the game:
\* Opening below 10, Endgame above 30, Middlegame otherwise.
C14_PhaseByPlies ==
  prPc = "prompted" =>
    prOut.phase = (IF prIn.fen.plies < 10 THEN "Opening"
                   ELSE IF prIn.fen.plies > 30 THEN "Endgame"
                   ELSE "Middlegame")

\* The legal captures whose destination the opponent cannot reach in one move.
UndefendedCaptures(f) ==
  {[to |-> f.allMoves[j].to, captured |-> f.allMoves[j].captured] :
     j \in {k \in 1..Len(f.allMoves) :
              f.allMoves[k].captured # "" /\ f.allMoves[k].to \notin f.reach}}

\* C15: the hanging-piece list of the chess-move-2 prompt holds exactly the
\* legal captures whose destination the opponent cannot reach in one move,
\* none of them marked as defended.
C15_HangingPieces ==
  prPc = "prompted" /\ prIn.route = "chess-move-2" =>
    /\ {[to |-> prOut.hanging[j].to, captured |-> prOut.hanging[j].captured] :
          j \in 1..Len(prOut.hanging)} = UndefendedCaptures(prIn.fen)
    /\ \A j \in 1..Len(prOut.hanging) : ~prOut.hanging[j].defended

\* C17 as claimed: chess-move chooses gpt-4 above a threshold of plies
\* played and gpt-3.5-turbo below; chess-move-2 always chooses gpt-4.
C17_ModelByPlyCount ==
  prPc # "start" =>
    prOut.model = (IF prIn.route = "chess-move-2" \/ prIn.fen.plies > 30
                     THEN "gpt-4" ELSE "gpt-3.5-turbo")

\* C17 as amended: chess-move chooses gpt-4 for a position with more than
\* 30 legal moves and gpt-3.5-turbo otherwise, whatever the plies played;
\* chess-move-2 always chooses gpt-4.
C17_ModelByLegalMoves ==
  prPc # "start" =>
    prOut.model = (IF prIn.route = "chess-move-2" \/ legalMoveCount(prIn.fen) > 30
                     THEN "gpt-4" ELSE "gpt-3.5-turbo")

\* C17 witness: chess-move chose gpt-4 for a position with 31 legal moves
\* after nine plies.
C17_Witness ==
  /\ prPc # "start" /\ prIn.route = "chess-move"
  /\ legalMoveCount(prIn.fen) = 31 /\ prIn.fen.plies = 9
  /\ prOut.model = "gpt-4"

\* The order of the stages of a request.
StageOrder(s) ==
  CASE s = "idle"                -> 0
    [] s = "validate-input"      -> 1
    [] s = "check-game-over"     -> 2
    [] s = "build-prompt"        -> 3
    [] s = "call-external-model" -> 4
    [] s = "validate-response"   -> 5
    [] s = "respond"             -> 6

\* C19: a request goes through validate-input, check-game-over,
\* build-prompt, call-external-model, validate-response and respond in this
\* order, leaving early only to respond, and the response is final; the
\* external model is called at most once, and only for the FEN of an
\* unfinished position; a move is returned only from validate-response or
\* as a member of the legal-move list.
C19_StageOrder ==
  /\ [][/\ stage' # stage =>
             \/ StageOrder(stage') = StageOrder(stage) + 1
             \/ stage' = "respond" /\ stage \in {"validate-input", "check-game-over",
                                                  "call-external-model"}
        /\ stage = "respond" => resp' = resp /\ stage' = stage
        /\ modelCalls' # modelCalls =>
             /\ stage = "build-prompt" /\ stage' = "call-external-model"
             /\ modelCalls = 0 /\ modelCalls' = 1
             /\ body.kind = "fen" /\ ~Finished(body.fen)
        /\ stage' = "respond" /\ stage # "respond" /\ "move" \in resp'.has =>
             \/ stage = "validate-response"
             \/ InLegalList(body.fen, resp'.move)]_vars
  /\ [](stage \in {"idle", "validate-input", "check-game-over", "build-prompt"}
          => resp = NoResponse /\ modelCalls = 0)

\* C19 witness: a request went through every stage and was answered with
\* the model's move.
C19_Witness ==
  /\ stage = "respond" /\ modelCalls = 1 /\ completion # NoCompletion
  /\ resp.status = 200 /\ "move" \in resp.has /\ "warning" \notin resp.has

\* The drop is one game.move accepts: a white piece moved as the i-th legal
\* move of the board holder.
LegalDrop(i) == turn(hkGame) = "w" /\ i \in 1..Len(hkGame.moves)

\* C21: a drop made while status is not 'player-turn' returns false and
\* changes nothing; an illegal drop made while status is 'player-turn'
\* returns false, sets the error and leaves the board holder, the history,
\* the evaluation, the status and the outstanding requests as they were; and
\* an error that is set is cleared again by the timer while the hook lives.
C21_IllegalDropSwallowed ==
  /\ [][\A i \in 0..1 :
          onDrop(i) =>
            IF hkUi.status # "player-turn"
              THEN /\ ~hkLast'.applied
                   /\ UNCHANGED <<hkGame, hkUndo, hkUi, hkPending>>
            ELSE ~LegalDrop(i) =>
                   /\ ~hkLast'.applied
                   /\ hkUi' = [hkUi EXCEPT !.error = MsgHookInvalidMove]
                   /\ UNCHANGED <<hkGame, hkUndo, hkPending>>]_vars
  /\ (hkUi.error = MsgHookInvalidMove) ~> (hkUi.error = "" \/ ~hkLive)

\* An illegal drop was swallowed at 'player-turn' after a full move: its
\* error is showing, the game is where the last reply left it.
C21_Witness ==
  /\ hkLast = Last("onDrop", FALSE, "-", TRUE)
  /\ hkUi.error = MsgHookInvalidMove
  /\ hkUi.status = "player-turn"
  /\ Len(hkUndo) = 2 /\ hkPending = <<>>
  /\ hkUi.history = historyOf(hkUndo)

\* C22: undoMove takes effect only when status is 'player-turn' and at
\* least two plies have been played; it then removes exactly the last two
\* plies, Black's reply and before it White's move, and restores the position
\* that preceded White's move, with White to move, status 'player-turn' and
\* the reported position and history following; otherwise it changes nothing.
C22_UndoTwoPlies ==
  [][undoMove =>
       IF hkUi.status = "player-turn" /\ Len(hkUndo) >= 2
         THEN /\ hkUndo[Len(hkUndo)].pos.turn = "b"
              /\ hkUndo[Len(hkUndo) - 1].pos.turn = "w"
              /\ hkUndo' = SubSeq(hkUndo, 1, Len(hkUndo) - 2)
              /\ hkGame' = hkUndo[Len(hkUndo) - 1].pos
              /\ turn(hkGame') = "w"
              /\ hkUi'.status = "player-turn"
              /\ hkUi'.fen = FromFen(hkGame')
              /\ hkUi'.history = historyOf(hkUndo')
              /\ ~hkUi'.gameOver
              /\ hkPending' = hkPending
         ELSE UNCHANGED <<hkGame, hkUndo, hkUi, hkPending>>]_vars

\* A full move was taken back: the board holder is at the starting position
\* again with nothing played, and it is the player's turn.
C22_Witness ==
  /\ hkLast = Last("undo", TRUE, "-", TRUE)
  /\ hkUndo = <<>> /\ hkGame = NewChess
  /\ hkUi.status = "player-turn" /\ hkUi.history = <<>>

\* C23: the result the hook reports names a winner only when the board
\* holder's position is checkmate, and then the side that is not to move;
\* for every drawn game the winner is null.
C23_WinnerOnlyByCheckmate ==
  hkUi.gameResult # NoResult =>
    IF isCheckmate(hkGame)
      THEN hkUi.gameResult.winner = (IF turn(hkGame) = "w" THEN "black" ELSE "white")
      ELSE hkUi.gameResult.winner = "null"

C25_SuccessNeverGameOver ==
  stage = "respond" /\ "move" \in resp.has =>
    /\ "warning" \notin resp.has => "gameOver" \in resp.has
    /\ "gameOver" \in resp.has => resp.gameOver = FALSE

\* A success response whose move checkmates, with gameOver false.
C25_Witness ==
  /\ AnsweredFen /\ "move" \in resp.has /\ "warning" \notin resp.has
  /\ "gameOver" \in resp.has /\ resp.gameOver = FALSE
  /\ LET i == moveFromSan(FromFen(body.fen), resp.move)
     IN  i \in 1..Len(body.fen.moves) /\ body.fen.moves[i].mate
====
